---- MODULE Spec2Model ----
(***************************************************************************)
(* Model of src/transforms/helpers/transform-helper.js: the synthesis of a *)
(* native class from the properties of an Ember object literal.            *)
(*                                                                         *)
(* Syntax-tree nodes are records carrying a "type" field, as the builders  *)
(* of the syntax-construction library produce them.  Nodes the code        *)
(* mutates in place (the input properties, the method bodies) are state.   *)
(***************************************************************************)
EXTENDS Integers, Sequences, FiniteSets, TLC

VARIABLES
    \* replaceSuperExpressions
    methodDefinition, md0, md1, passes,
    \* createConstructor
    instanceProps, ctorResult, ctorDone,
    \* createSuperClassExpression
    superClassName, mixins, superExpr, superDone,
    \* createClass
    props, orig, runStart, idx, classBody, classDecorators, pc, run,
    className, result, result1

vars == <<methodDefinition, md0, md1, passes,
          instanceProps, ctorResult, ctorDone,
          superClassName, mixins, superExpr, superDone,
          props, orig, runStart, idx, classBody, classDecorators, pc, run,
          className, result, result1>>

rewriteVars == <<methodDefinition, md0, md1, passes>>
ctorVars == <<instanceProps, ctorResult, ctorDone>>
superVars == <<superClassName, mixins, superExpr, superDone>>
classVars == <<props, orig, runStart, idx, classBody, classDecorators, pc, run,
               className, result, result1>>

-----------------------------------------------------------------------------
(* Bounds of the model *)

\* longest method body (statements) given to the rewriter
MaxBody == 2
\* deepest nesting of a statement inside blocks and callback arguments
MaxDepth == 1
\* longest list of instance properties given to createConstructor
MaxInst == 3
\* longest list of mixins
MaxMixins == 3
\* longest list of properties given to createClass
MaxProps == 2

-----------------------------------------------------------------------------
(* Sequence helpers *)

SeqsUpTo(S, n) == UNION {[1..k -> S] : k \in 0..n}

\* Array.prototype.shift / pop on a copy: the remaining elements
Shifted(s) == IF Len(s) = 0 THEN s ELSE Tail(s)

-----------------------------------------------------------------------------
(* Node builders, as called through `j`: each returns a new node holding   *)
(* the nodes it is given.                                                  *)

Null == [type |-> "Null"]

Identifier(name) == [type |-> "Identifier", name |-> name]

Literal(value) == [type |-> "Literal", value |-> value]

Comment(value) == [type |-> "CommentBlock", value |-> value]

ThisExpression == [type |-> "ThisExpression"]

Super == [type |-> "Super"]

MemberExpression(object, property) ==
    [type |-> "MemberExpression", object |-> object, property |-> property]

CallExpression(callee, arguments) ==
    [type |-> "CallExpression", callee |-> callee, arguments |-> arguments]

AssignmentExpression(left, right) ==
    [type |-> "AssignmentExpression", operator |-> "=", left |-> left,
     right |-> right]

ExpressionStatement(expression) ==
    [type |-> "ExpressionStatement", expression |-> expression, comments |-> <<>>]

BlockStatement(body) == [type |-> "BlockStatement", body |-> body]

IfStatement(consequent) ==
    [type |-> "IfStatement", test |-> Identifier("cond"),
     consequent |-> BlockStatement(consequent)]

FunctionExpression(params, body) ==
    [type |-> "FunctionExpression", params |-> params, body |-> body]

MethodDefinition(kind, key, value) ==
    [type |-> "MethodDefinition", kind |-> kind, key |-> key, value |-> value,
     comments |-> <<>>, decorators |-> <<>>, computed |-> FALSE]

ClassProperty(key, value) ==
    [type |-> "ClassProperty", kind |-> "field", key |-> key, value |-> value,
     comments |-> <<>>, decorators |-> <<>>, computed |-> FALSE]

-----------------------------------------------------------------------------
(* withComments: copy comments `from` => `to` *)

withComments(to, from) == [to EXCEPT !.comments = from.comments]

-----------------------------------------------------------------------------
(* replaceSuperExpressions *)

\* the filter given to find(): an expression statement whose expression is a
\* call of a member named _super; the receiver is not part of the filter
IsSuperExpr(node) ==
    /\ node.type = "ExpressionStatement"
    /\ node.expression.type = "CallExpression"
    /\ node.expression.callee.type = "MemberExpression"
    /\ node.expression.callee.property.type = "Identifier"
    /\ node.expression.callee.property.name = "_super"

\* the statement put in place of a match
superMethodCall(key, superMethodArgs) ==
    ExpressionStatement(
        CallExpression(MemberExpression(Super, key), superMethodArgs))

RECURSIVE ReplaceIn(_, _)
RECURSIVE ReplaceInSeq(_, _)

\* Faulty variant: the forwarded arguments are a copy taken before the matches nested
\* in them are replaced.
superMethodArgsCopied(arguments, key) == arguments

\* The argument array of a match is handed to the new call as the same array;
\* find() has also collected the matches nested inside those arguments, and
\* replacing them in place shows through the new call.
superMethodArgs(arguments, key) == ReplaceInSeq(arguments, key)

\* find() visits every descendant; forEach/replaceWith replaces each match
ReplaceIn(node, key) ==
    CASE node.type = "ExpressionStatement" ->
            IF IsSuperExpr(node)
            THEN superMethodCall(key,
                     superMethodArgs(node.expression.arguments, key))
            ELSE [node EXCEPT !.expression = ReplaceIn(node.expression, key)]
      [] node.type = "CallExpression" ->
            [node EXCEPT !.callee = ReplaceIn(node.callee, key),
                         !.arguments = ReplaceInSeq(node.arguments, key)]
      [] node.type = "MemberExpression" ->
            [node EXCEPT !.object = ReplaceIn(node.object, key)]
      [] node.type = "AssignmentExpression" ->
            [node EXCEPT !.right = ReplaceIn(node.right, key)]
      [] node.type = "FunctionExpression" ->
            [node EXCEPT !.body = ReplaceIn(node.body, key)]
      [] node.type = "BlockStatement" ->
            [node EXCEPT !.body = ReplaceInSeq(node.body, key)]
      [] node.type = "IfStatement" ->
            [node EXCEPT !.consequent = ReplaceIn(node.consequent, key)]
      [] OTHER -> node

ReplaceInSeq(nodes, key) ==
    [i \in 1..Len(nodes) |-> ReplaceIn(nodes[i], key)]

replaceSuperExpressions(md) ==
    [md EXCEPT !.value = ReplaceIn(md.value, md.key)]

-----------------------------------------------------------------------------
(* Inputs of the rewriter *)

ThisSuperCall(arguments) ==
    CallExpression(MemberExpression(ThisExpression, Identifier("_super")),
                   arguments)

Atoms ==
    { ExpressionStatement(ThisSuperCall(<<Identifier("arguments")>>)),
      ExpressionStatement(
          CallExpression(
              MemberExpression(Identifier("other"), Identifier("_super")),
              <<>>)),
      ExpressionStatement(
          CallExpression(
              MemberExpression(ThisExpression, Identifier("foo")),
              <<Identifier("arguments")>>)),
      ExpressionStatement(
          AssignmentExpression(Identifier("x"), ThisSuperCall(<<>>))) }

RECURSIVE Stmts(_)
Stmts(d) ==
    IF d = 0 THEN Atoms
    ELSE LET inner == Stmts(d - 1) IN
         inner
         \cup { IfStatement(<<s>>) : s \in inner }
         \cup { ExpressionStatement(
                    ThisSuperCall(
                        <<FunctionExpression(<<>>, BlockStatement(<<s>>))>>))
                : s \in inner }

Bodies == SeqsUpTo(Stmts(MaxDepth), MaxBody)

MethodNames == {"foo", "_super"}

RewriteInit ==
    /\ methodDefinition \in
         { MethodDefinition("method", Identifier(n),
                            FunctionExpression(<<>>, BlockStatement(b)))
           : n \in MethodNames, b \in Bodies }
    /\ md0 = methodDefinition
    /\ md1 = methodDefinition
    /\ passes = 0

\* one application of replaceSuperExpressions to the method definition
ReplaceSuper ==
    /\ passes = 0
    /\ methodDefinition' = replaceSuperExpressions(methodDefinition)
    /\ md1' = methodDefinition'
    /\ passes' = 1
    /\ UNCHANGED <<md0, ctorVars, superVars, classVars>>

\* the rewriter run again on its own output
ReplaceSuperAgain ==
    /\ passes = 1
    /\ methodDefinition' = replaceSuperExpressions(methodDefinition)
    /\ passes' = 2
    /\ UNCHANGED <<md0, md1, ctorVars, superVars, classVars>>

RewriteNext == ReplaceSuper \/ ReplaceSuperAgain

-----------------------------------------------------------------------------
(* createConstructor *)

createSuperExpressionStatement ==
    ExpressionStatement(CallExpression(Super, <<>>))

\* Faulty variant: the assignments come out in reverse order.
instancePropsToExpressionsReversed(instProps) ==
    [i \in 1..Len(instProps) |->
        LET instanceProp == instProps[Len(instProps) + 1 - i] IN
        withComments(
            ExpressionStatement(
                AssignmentExpression(
                    MemberExpression(ThisExpression, instanceProp.key),
                    instanceProp.value)),
            instanceProp)]

instancePropsToExpressions(instProps) ==
    [i \in 1..Len(instProps) |->
        LET instanceProp == instProps[i] IN
        withComments(
            ExpressionStatement(
                AssignmentExpression(
                    MemberExpression(ThisExpression, instanceProp.key),
                    instanceProp.value)),
            instanceProp)]

createConstructor(instProps) ==
    IF Len(instProps) # 0
    THEN << MethodDefinition(
                "constructor",
                Identifier("constructor"),
                FunctionExpression(
                    <<>>,
                    BlockStatement(
                        <<createSuperExpressionStatement>>
                        \o instancePropsToExpressions(instProps)))) >>
    ELSE <<>>

\* instance properties that need eager initialisation
InstanceProps ==
    { [key |-> Identifier(k), value |-> Literal(k), comments |-> c]
      : k \in {"a", "b"}, c \in {<<>>, <<Comment("c1")>>} }

RewriteIdle ==
    /\ methodDefinition = Null
    /\ md0 = Null
    /\ md1 = Null
    /\ passes = 0

CtorIdle ==
    /\ instanceProps = <<>>
    /\ ctorResult = <<>>
    /\ ctorDone = FALSE

SuperIdle ==
    /\ superClassName = ""
    /\ mixins = <<>>
    /\ superExpr = Null
    /\ superDone = FALSE

ClassIdle ==
    /\ props = <<>>
    /\ orig = <<>>
    /\ runStart = <<>>
    /\ idx = 1
    /\ classBody = <<>>
    /\ classDecorators = <<>>
    /\ pc = "idle"
    /\ run = 1
    /\ className = ""
    /\ result = Null
    /\ result1 = Null

CtorInit ==
    /\ instanceProps \in SeqsUpTo(InstanceProps, MaxInst)
    /\ ctorResult = <<>>
    /\ ctorDone = FALSE

\* a call of createConstructor
CreateConstructor ==
    /\ ~ctorDone
    /\ ctorResult' = createConstructor(instanceProps)
    /\ ctorDone' = TRUE
    /\ UNCHANGED <<instanceProps, rewriteVars, superVars, classVars>>

-----------------------------------------------------------------------------
(* createSuperClassExpression *)

createSuperClassExpression(name, mixinList) ==
    IF Len(mixinList) > 0
    THEN CallExpression(
             MemberExpression(Identifier(name), Identifier("extend")),
             mixinList)
    ELSE Identifier(name)

SuperClassNames == {"", "EmberObject", "Component"}

Mixins == {Identifier("MixinA"), Identifier("MixinB"), Identifier("MixinC")}

SuperInit ==
    /\ superClassName \in SuperClassNames
    /\ mixins \in SeqsUpTo(Mixins, MaxMixins)
    /\ superExpr = Null
    /\ superDone = FALSE

\* a call of createSuperClassExpression
CreateSuperClassExpression ==
    /\ ~superDone
    /\ superExpr' = createSuperClassExpression(superClassName, mixins)
    /\ superDone' = TRUE
    /\ UNCHANGED <<superClassName, mixins, rewriteVars, ctorVars, classVars>>

-----------------------------------------------------------------------------
(* Collaborators of ./util and ./decorator-helper, and the property model *)

Decorator(name) == [type |-> "Decorator", expression |-> Identifier(name)]

ObjectExpression(properties) ==
    [type |-> "ObjectExpression", properties |-> properties]

\* an entry `name(params) { this._super(...arguments) }` of an object literal
Property(name, params, comments) ==
    [type |-> "Property", kind |-> "init", key |-> Identifier(name),
     value |-> FunctionExpression(
                   params,
                   BlockStatement(
                       <<ExpressionStatement(
                             ThisSuperCall(<<Identifier("arguments")>>))>>)),
     comments |-> comments]

\* a legacy property as the parser hands it over; `decorators` and `setValue`
\* hold what the decorator policy and the value policy answer for it
EOProp(name, value) ==
    [isClassDecorator |-> FALSE, isCallExpression |-> FALSE,
     type |-> value.type, name |-> name, key |-> Identifier(name),
     kind |-> "init", value |-> value, comments |-> <<>>, computed |-> FALSE,
     callExprArgs |-> <<>>, decorators |-> <<>>, setValue |-> TRUE]

getPropName(prop) == prop.key.name

shouldSetValue(prop) == prop.setValue

createInstancePropDecorators(prop) == prop.decorators

createActionDecorators == <<Decorator("action")>>

createClassDecorator(prop) ==
    [type |-> "Decorator",
     expression |-> CallExpression(Identifier(prop.name), <<prop.value>>)]

withDecorators(to, decorators) ==
    IF Len(decorators) > 0 THEN [to EXCEPT !.decorators = decorators] ELSE to

-----------------------------------------------------------------------------
(* createMethodProp, createClassProp *)

propKind(functionProp) ==
    IF functionProp.kind = "init" THEN "method" ELSE functionProp.kind

createMethodProp(functionProp, decorators) ==
    withDecorators(
        withComments(
            replaceSuperExpressions(
                MethodDefinition(propKind(functionProp), functionProp.key,
                                 functionProp.value)),
            functionProp),
        decorators)

createClassProp(instanceProp) ==
    [ withDecorators(
          withComments(
              ClassProperty(
                  instanceProp.key,
                  IF shouldSetValue(instanceProp)
                  THEN instanceProp.value ELSE Null),
              instanceProp),
          createInstancePropDecorators(instanceProp))
      EXCEPT !.computed = instanceProp.computed ]

\* What a handler leaves behind: whether it returned (ok), the members it
\* returned, the class-level decorators it added, and the input property as
\* it is afterwards (the handlers write into the nodes they are given).
Returned(members, prop) ==
    [ok |-> TRUE, members |-> members, classDecorators |-> <<>>, prop |-> prop]

Thrown(prop) ==
    [ok |-> FALSE, members |-> <<>>, classDecorators |-> <<>>, prop |-> prop]

\* createMethodProp on a function-valued property: the method takes the
\* property's own function node, so the rewrite of its body shows in the input
MethodOutcome(prop) ==
    LET method == createMethodProp(prop, <<>>) IN
    Returned(<<method>>, [prop EXCEPT !.value = method.value])

-----------------------------------------------------------------------------
(* createActionDecoratedProps *)

\* Faulty variant: the action decorators are not handed to createMethodProp.
actionMethodUndecorated(actionProp) == createMethodProp(actionProp, <<>>)

actionMethod(actionProp) ==
    createMethodProp(actionProp, createActionDecorators)

createActionDecoratedProps(actionsProp) ==
    IF actionsProp.value.type # "ObjectExpression"
    THEN \* value.properties is undefined: the .map call throws
         Thrown(actionsProp)
    ELSE LET actionProps == actionsProp.value.properties
             methods == [i \in 1..Len(actionProps) |->
                            actionMethod(actionProps[i])]
             \* each method takes its entry's function node
             after == [i \in 1..Len(actionProps) |->
                          [actionProps[i] EXCEPT !.value = methods[i].value]]
         IN Returned(methods,
                     [actionsProp EXCEPT !.value.properties = after])

-----------------------------------------------------------------------------
(* createCallExpressionProp *)

\* the writes into an entry of the trailing object argument
callExprFunction(entry, callExprProp) ==
    [entry EXCEPT !.kind = getPropName(entry),
                  !.key = callExprProp.key,
                  !.value = [@ EXCEPT !.params = Shifted(@)]]

\* the trailing argument is an object expression
callExprMethods(callExprProp, callExprLastArg) ==
    LET entries == callExprLastArg.properties
        written == [i \in 1..Len(entries) |->
                       callExprFunction(entries[i], callExprProp)]
        methods == [i \in 1..Len(entries) |->
                       createMethodProp(written[i], <<>>)]
        \* each method takes its entry's function node
        after == [i \in 1..Len(entries) |->
                     [written[i] EXCEPT !.value = methods[i].value]]
        n == Len(callExprProp.callExprArgs)
        propAfter == [callExprProp EXCEPT
                         !.callExprArgs[n].properties = after]
    IN IF Len(methods) = 0
       THEN \* callExprMethods[0] is undefined: withComments throws
            Thrown(propAfter)
       ELSE Returned(
                << withDecorators(
                       withComments(methods[1], callExprProp),
                       createInstancePropDecorators(callExprProp)) >>
                \o Tail(methods),
                propAfter)

createCallExpressionProp(callExprProp) ==
    LET n == Len(callExprProp.callExprArgs)
        callExprLastArg == callExprProp.callExprArgs[n]
        lastArgType == IF n = 0 THEN "undefined" ELSE callExprLastArg.type
    IN IF lastArgType = "FunctionExpression"
       THEN LET functionExpr == [kind |-> callExprProp.kind,
                                 key |-> callExprProp.key,
                                 value |-> callExprLastArg,
                                 comments |-> callExprProp.comments]
                method == createMethodProp(
                              functionExpr,
                              createInstancePropDecorators(callExprProp))
            IN Returned(<<method>>,
                        [callExprProp EXCEPT
                            !.callExprArgs[n] = method.value])
       ELSE IF lastArgType = "ObjectExpression"
       THEN callExprMethods(callExprProp, callExprLastArg)
       ELSE Returned(<<createClassProp(callExprProp)>>, callExprProp)

-----------------------------------------------------------------------------
(* createClass *)

\* Faulty variant: the call-expression test comes before the function test, and the
\* actions test before both.
BranchReordered(prop) ==
    IF prop.isClassDecorator THEN "classDecorator"
    ELSE IF prop.name = "actions" THEN "actions"
    ELSE IF prop.isCallExpression THEN "callExpression"
    ELSE IF prop.type = "FunctionExpression" THEN "method"
    ELSE "classProp"

\* the branch of the forEach callback a property takes
Branch(prop) ==
    IF prop.isClassDecorator THEN "classDecorator"
    ELSE IF prop.type = "FunctionExpression" THEN "method"
    ELSE IF prop.isCallExpression THEN "callExpression"
    ELSE IF prop.name = "actions" THEN "actions"
    ELSE "classProp"

\* the forEach callback applied to one property
Outcome(prop) ==
    CASE Branch(prop) = "classDecorator" ->
            [ok |-> TRUE, members |-> <<>>,
             classDecorators |-> <<createClassDecorator(prop)>>,
             prop |-> prop]
      [] Branch(prop) = "method" -> MethodOutcome(prop)
      [] Branch(prop) = "callExpression" -> createCallExpressionProp(prop)
      [] Branch(prop) = "actions" -> createActionDecoratedProps(prop)
      [] OTHER -> Returned(<<createClassProp(prop)>>, prop)

\* Faulty variant: new members are put in front of the body.
PushedInFront(body, members) == members \o body

\* classBody.push(...) and classBody = classBody.concat(...)
Pushed(body, members) == body \o members

ClassDeclaration(id, body, superClass) ==
    [type |-> "ClassDeclaration", id |-> id,
     body |-> [type |-> "ClassBody", body |-> body],
     superClass |-> superClass, decorators |-> <<>>]

\* the forEach callback returns for the property at idx
ForEachProp ==
    /\ pc = "loop"
    /\ idx <= Len(props)
    /\ LET o == Outcome(props[idx]) IN
       /\ o.ok
       /\ classBody' = Pushed(classBody, o.members)
       /\ classDecorators' = classDecorators \o o.classDecorators
       /\ props' = [props EXCEPT ![idx] = o.prop]
    /\ idx' = idx + 1
    /\ UNCHANGED <<orig, runStart, pc, run, className, result, result1,
                   superClassName, mixins, superExpr, superDone,
                   rewriteVars, ctorVars>>

\* the forEach callback throws for the property at idx; createClass is left
ForEachPropThrows ==
    /\ pc = "loop"
    /\ idx <= Len(props)
    /\ LET o == Outcome(props[idx]) IN
       /\ ~o.ok
       /\ props' = [props EXCEPT ![idx] = o.prop]
    /\ pc' = "error"
    /\ UNCHANGED <<orig, runStart, idx, classBody, classDecorators, run,
                   className, result, result1,
                   superClassName, mixins, superExpr, superDone,
                   rewriteVars, ctorVars>>

\* the class declaration is built and returned
ReturnClass ==
    /\ pc = "loop"
    /\ idx > Len(props)
    /\ result' = withDecorators(
                     ClassDeclaration(
                         IF className # "" THEN Identifier(className) ELSE Null,
                         classBody,
                         createSuperClassExpression(superClassName, mixins)),
                     classDecorators)
    /\ pc' = "done"
    /\ UNCHANGED <<props, orig, runStart, idx, classBody, classDecorators, run,
                   className, result1,
                   superClassName, mixins, superExpr, superDone,
                   rewriteVars, ctorVars>>

\* calls of createClass on one input: the first, and the repetitions
MaxRuns == 2

\* createClass is called again with the same property list
CallAgain ==
    /\ pc = "done"
    /\ run < MaxRuns
    /\ run' = run + 1
    /\ result1' = IF run = 1 THEN result ELSE result1
    /\ runStart' = props
    /\ idx' = 1
    /\ classBody' = <<>>
    /\ classDecorators' = <<>>
    /\ pc' = "loop"
    /\ UNCHANGED <<props, orig, className, result,
                   superClassName, mixins, superExpr, superDone,
                   rewriteVars, ctorVars>>

ClassNext == ForEachProp \/ ForEachPropThrows \/ ReturnClass \/ CallAgain

-----------------------------------------------------------------------------
(* Inputs of createClass *)

SuperCallBody ==
    BlockStatement(
        <<ExpressionStatement(ThisSuperCall(<<Identifier("arguments")>>))>>)

\* a property whose value is a call, with the call's argument list
CallProp(name, arguments) ==
    [EOProp(name, CallExpression(Identifier("computed"), arguments))
     EXCEPT !.isCallExpression = TRUE, !.callExprArgs = arguments]

GetSetObject ==
    ObjectExpression(
        << Property("get", <<Identifier("key")>>, <<Comment("getter")>>),
           Property("set", <<Identifier("key"), Identifier("value")>>,
                    <<Comment("setter")>>) >>)

\* properties of every branch, and properties that pass several of the
\* tests of the forEach callback at once
PropCatalogue ==
    { [EOProp("didInsertElement", FunctionExpression(<<>>, SuperCallBody))
          EXCEPT !.comments = <<Comment("hook")>>],
      [EOProp("size", FunctionExpression(<<>>, BlockStatement(<<>>)))
          EXCEPT !.kind = "get"],
      [EOProp("tagName", Literal("div")) EXCEPT !.isClassDecorator = TRUE],
      [EOProp("layout", FunctionExpression(<<>>, SuperCallBody))
          EXCEPT !.isClassDecorator = TRUE],
      [EOProp("actions", FunctionExpression(<<>>, SuperCallBody))
          EXCEPT !.isCallExpression = TRUE,
                 !.callExprArgs = <<Literal("dep")>>],
      [EOProp("observed", FunctionExpression(<<>>, SuperCallBody))
          EXCEPT !.isCallExpression = TRUE,
                 !.callExprArgs = <<GetSetObject>>],
      [CallProp("fullName",
                <<Literal("first"),
                  FunctionExpression(<<>>, SuperCallBody)>>)
          EXCEPT !.comments = <<Comment("full name")>>,
                 !.decorators = <<Decorator("computed")>>],
      [CallProp("name", <<GetSetObject>>)
          EXCEPT !.comments = <<Comment("name")>>,
                 !.decorators = <<Decorator("computed")>>],
      CallProp("empty", <<ObjectExpression(<<>>)>>),
      CallProp("store", <<>>),
      CallProp("alias", <<Literal("other")>>),
      CallProp("actions", <<GetSetObject>>),
      [CallProp("classNames", <<Literal("a")>>)
          EXCEPT !.isClassDecorator = TRUE],
      EOProp("actions",
             ObjectExpression(
                 << Property("save", <<>>, <<Comment("save")>>),
                    Property("cancel", <<Identifier("e")>>, <<>>) >>)),
      EOProp("actions", ObjectExpression(<<>>)),
      EOProp("actions", Literal("none")),
      [EOProp("title", Literal("t")) EXCEPT !.comments = <<Comment("title")>>],
      [EOProp("role", Literal("r"))
          EXCEPT !.setValue = FALSE, !.computed = TRUE,
                 !.decorators = <<Decorator("attribute")>>] }

\* class name, superclass name and mixins given to createClass
ClassEnvs ==
    { [className |-> "Foo", superClassName |-> "EmberObject",
       mixins |-> <<>>],
      [className |-> "", superClassName |-> "Component",
       mixins |-> <<Identifier("MixinA"), Identifier("MixinB")>>] }

\* createClass is entered with the property list `list`
Entered(list) ==
    /\ props = list
    /\ orig = list
    /\ runStart = list
    /\ idx = 1
    /\ classBody = <<>>
    /\ classDecorators = <<>>
    /\ pc = "loop"
    /\ run = 1
    /\ result = Null
    /\ result1 = Null
    /\ \E env \in ClassEnvs :
          /\ className = env.className
          /\ superClassName = env.superClassName
          /\ mixins = env.mixins
    /\ superExpr = Null
    /\ superDone = FALSE

ClassInit == \E list \in SeqsUpTo(PropCatalogue, MaxProps) : Entered(list)

-----------------------------------------------------------------------------
(* Inputs of the expanding handlers: one property, every entry list *)

\* longest entry list of an object literal
MaxEntries == 2

Entries ==
    { Property(n, ps, <<Comment(n)>>)
      : n \in {"get", "set", "init"},
        ps \in { <<>>, <<Identifier("key")>>,
                 <<Identifier("key"), Identifier("value")>> } }

EntryLists == SeqsUpTo(Entries, MaxEntries)

ExpandingProps ==
    { [CallProp("fullName", <<Literal("first"), ObjectExpression(es)>>)
          EXCEPT !.comments = c, !.decorators = d]
      : es \in EntryLists,
        c \in {<<>>, <<Comment("full name")>>},
        d \in {<<>>, <<Decorator("computed")>>} }
    \cup
    { [CallProp("store", arguments) EXCEPT !.setValue = sv]
      : arguments \in { <<>>, <<Literal("store")>>,
                        <<Literal("a"), Identifier("b")>> },
        sv \in BOOLEAN }
    \cup
    { CallProp("total",
               <<Literal("items"), FunctionExpression(<<>>, SuperCallBody)>>) }
    \cup
    { EOProp("actions", ObjectExpression(es)) : es \in EntryLists }

ExpandInit == \E prop \in ExpandingProps : Entered(<<prop>>)

-----------------------------------------------------------------------------
(* Specifications of the stand-alone helpers *)

CtorNext == CreateConstructor

SuperNext == CreateSuperClassExpression

InitRewrite == RewriteInit /\ CtorIdle /\ SuperIdle /\ ClassIdle

InitCtor == CtorInit /\ RewriteIdle /\ SuperIdle /\ ClassIdle

InitSuper == SuperInit /\ RewriteIdle /\ CtorIdle /\ ClassIdle

InitClass == ClassInit /\ RewriteIdle /\ CtorIdle

InitExpand == ExpandInit /\ RewriteIdle /\ CtorIdle

SpecClass == InitClass /\ [][ClassNext]_vars

SpecExpand == InitExpand /\ [][ClassNext]_vars

SpecRewrite == InitRewrite /\ [][RewriteNext]_vars

SpecCtor == InitCtor /\ [][CtorNext]_vars

SpecSuper == InitSuper /\ [][SuperNext]_vars

-----------------------------------------------------------------------------
(* Properties of createConstructor *)

\* the statement `this.<key> = <value>` of one instance property
IsAssignmentOf(stmt, instanceProp) ==
    /\ stmt.type = "ExpressionStatement"
    /\ stmt.expression.type = "AssignmentExpression"
    /\ stmt.expression.operator = "="
    /\ stmt.expression.left.type = "MemberExpression"
    /\ stmt.expression.left.object.type = "ThisExpression"
    /\ stmt.expression.left.property = instanceProp.key
    /\ stmt.expression.right = instanceProp.value
    /\ stmt.comments = instanceProp.comments

IsBareSuperCall(stmt) ==
    /\ stmt.type = "ExpressionStatement"
    /\ stmt.expression.type = "CallExpression"
    /\ stmt.expression.callee.type = "Super"
    /\ Len(stmt.expression.arguments) = 0

\* C3: createConstructor returns no constructor for an empty list, and for a
\* non-empty list exactly one constructor whose body is one no-argument
\* super() call followed by one assignment `this.<key> = <value>` per
\* property, in input order, each carrying its property's comments.
C3_Constructor ==
    ctorDone =>
        IF Len(instanceProps) = 0
        THEN Len(ctorResult) = 0
        ELSE /\ Len(ctorResult) = 1
             /\ ctorResult[1].type = "MethodDefinition"
             /\ ctorResult[1].kind = "constructor"
             /\ ctorResult[1].key = Identifier("constructor")
             /\ Len(ctorResult[1].value.params) = 0
             /\ LET stmts == ctorResult[1].value.body.body IN
                /\ Len(stmts) = Len(instanceProps) + 1
                /\ IsBareSuperCall(stmts[1])
                /\ \A i \in 1..Len(instanceProps) :
                      IsAssignmentOf(stmts[i + 1], instanceProps[i])

C3_Witness ==
    /\ ctorDone
    /\ Len(instanceProps) >= 2
    /\ instanceProps[1].key # instanceProps[2].key
    /\ instanceProps[2].comments # <<>>
    /\ Len(ctorResult) = 1
    /\ Len(ctorResult[1].value.body.body) = Len(instanceProps) + 1

-----------------------------------------------------------------------------
(* Properties of createSuperClassExpression *)

\* C4: with zero mixins and a non-empty name the result is the bare
\* identifier; with zero mixins and an empty name it is null (no superclass);
\* with one or more mixins it is <name>.extend(m1, ..., mk), mixins in order.
C4_SuperClassExpression ==
    superDone =>
        /\ (Len(mixins) = 0 /\ superClassName # "")
              => superExpr = Identifier(superClassName)
        /\ (Len(mixins) = 0 /\ superClassName = "")
              => superExpr.type = "Null"
        /\ Len(mixins) > 0
              => /\ superExpr.type = "CallExpression"
                 /\ superExpr.callee.type = "MemberExpression"
                 /\ superExpr.callee.object = Identifier(superClassName)
                 /\ superExpr.callee.property = Identifier("extend")
                 /\ superExpr.arguments = mixins

-----------------------------------------------------------------------------
(* Properties of replaceSuperExpressions *)

\* the statement shape the rewriter is described to match: this._super(<args>)
IsThisSuperStatement(node) ==
    /\ node.type = "ExpressionStatement"
    /\ node.expression.type = "CallExpression"
    /\ node.expression.callee.type = "MemberExpression"
    /\ node.expression.callee.object.type = "ThisExpression"
    /\ node.expression.callee.property.type = "Identifier"
    /\ node.expression.callee.property.name = "_super"

RECURSIVE Described(_, _)
\* the rewrite as described: only this._super(<args>) statements are replaced
Described(node, key) ==
    CASE node.type = "ExpressionStatement" ->
            IF IsThisSuperStatement(node)
            THEN ExpressionStatement(
                     CallExpression(
                         MemberExpression(Super, key),
                         [i \in 1..Len(node.expression.arguments) |->
                             Described(node.expression.arguments[i], key)]))
            ELSE [node EXCEPT !.expression = Described(node.expression, key)]
      [] node.type = "CallExpression" ->
            [node EXCEPT
                !.callee = Described(node.callee, key),
                !.arguments = [i \in 1..Len(node.arguments) |->
                                  Described(node.arguments[i], key)]]
      [] node.type = "MemberExpression" ->
            [node EXCEPT !.object = Described(node.object, key)]
      [] node.type = "AssignmentExpression" ->
            [node EXCEPT !.right = Described(node.right, key)]
      [] node.type = "FunctionExpression" ->
            [node EXCEPT !.body = Described(node.body, key)]
      [] node.type = "BlockStatement" ->
            [node EXCEPT !.body = [i \in 1..Len(node.body) |->
                                      Described(node.body[i], key)]]
      [] node.type = "IfStatement" ->
            [node EXCEPT !.consequent = Described(node.consequent, key)]
      [] OTHER -> node

\* C7: applied to a method named m, the rewriter replaces every statement
\* that is exactly this._super(<args>) by super.m(<args>) and leaves every
\* other statement unchanged, among them a _super call on a receiver other
\* than `this`.
C7_OnlyThisSuperRewritten ==
    passes >= 1 =>
        /\ md1.key = md0.key
        /\ md1.value = Described(md0.value, md0.key)

\* C8: the rewriter applied to its own output changes nothing.
C8_Idempotent == passes = 2 => methodDefinition = md1

\* a method named _super whose body holds a delegation call nested in the
\* arguments of another delegation call, rewritten twice
C8_Witness ==
    /\ passes = 2
    /\ md0.key.name = "_super"
    /\ md1 # md0
    /\ \E i \in 1..Len(md0.value.body.body) :
          LET stmt == md0.value.body.body[i] IN
          /\ IsSuperExpr(stmt)
          /\ Len(stmt.expression.arguments) = 1
          /\ stmt.expression.arguments[1].type = "FunctionExpression"
          /\ IsSuperExpr(stmt.expression.arguments[1].body.body[1])

-----------------------------------------------------------------------------
(* Properties of createClass *)

\* the handler of the earliest test of the forEach callback a property passes
EarliestMatch(prop) ==
    IF prop.isClassDecorator
    THEN [ok |-> TRUE, members |-> <<>>,
          classDecorators |-> <<createClassDecorator(prop)>>, prop |-> prop]
    ELSE IF prop.type = "FunctionExpression" THEN MethodOutcome(prop)
    ELSE IF prop.isCallExpression THEN createCallExpressionProp(prop)
    ELSE IF prop.name = "actions" THEN createActionDecoratedProps(prop)
    ELSE Returned(<<createClassProp(prop)>>, prop)

\* C1: each property is handled by the earliest matching branch only: class
\* decorator (no member), else function-valued (one method), else call
\* expression, else actions, else one plain field.
C1_Dispatch ==
    [][ (pc = "loop" /\ idx <= Len(props) /\ (idx' = idx + 1 \/ pc' = "error"))
        => LET prop == props[idx]
               expected == EarliestMatch(prop)
           IN /\ (pc' = "error") <=> ~expected.ok
              /\ expected.ok =>
                    /\ classBody' = classBody \o expected.members
                    /\ classDecorators' =
                          classDecorators \o expected.classDecorators
              /\ (pc' # "error" /\ prop.isClassDecorator) =>
                    /\ classBody' = classBody
                    /\ Len(classDecorators') = Len(classDecorators) + 1
              /\ (pc' # "error" /\ ~prop.isClassDecorator
                    /\ prop.type = "FunctionExpression") =>
                    /\ Len(classBody') = Len(classBody) + 1
                    /\ classBody'[Len(classBody')].type = "MethodDefinition"
                    /\ classBody'[Len(classBody')].key = prop.key
                    /\ classDecorators' = classDecorators
              /\ (pc' # "error" /\ ~prop.isClassDecorator
                    /\ prop.type # "FunctionExpression"
                    /\ ~prop.isCallExpression /\ prop.name # "actions") =>
                    /\ Len(classBody') = Len(classBody) + 1
                    /\ classBody'[Len(classBody')].type = "ClassProperty"
                    /\ classBody'[Len(classBody')].key = prop.key ]_vars

\* a call-expression property named "actions" went to the call-expression
\* handler, and a function-valued class decorator gave no member
C1_Witness ==
    /\ pc = "done"
    /\ run = 1
    /\ Len(orig) = 2
    /\ orig[1].isCallExpression /\ orig[1].name = "actions"
    /\ ~orig[1].isClassDecorator /\ orig[1].type # "FunctionExpression"
    /\ orig[2].isClassDecorator /\ orig[2].type = "FunctionExpression"
    /\ Len(classBody) = 2
    /\ classBody[1].kind = "get" /\ classBody[2].kind = "set"
    /\ Len(classDecorators) = 1

RECURSIVE ConcatOfOutputs(_, _)
\* the outputs of the first n properties of `list`, one after the other
ConcatOfOutputs(list, n) ==
    IF n = 0 THEN <<>>
    ELSE ConcatOfOutputs(list, n - 1) \o Outcome(list[n]).members

\* C2: after any prefix of the input is processed the class body is the
\* concatenation, in input order, of the outputs of that prefix, and the
\* class returned holds the concatenation for the whole input.
C2_BodyIsConcatenation ==
    pc \in {"loop", "done", "error"} =>
        /\ classBody = ConcatOfOutputs(runStart, idx - 1)
        /\ pc = "done" =>
              /\ idx = Len(runStart) + 1
              /\ result.body.body = ConcatOfOutputs(runStart, Len(runStart))

IsCallBranch(prop) ==
    /\ ~prop.isClassDecorator
    /\ prop.type # "FunctionExpression"
    /\ prop.isCallExpression

LastArg(prop) == prop.callExprArgs[Len(prop.callExprArgs)]

HasObjectArgument(prop) ==
    /\ IsCallBranch(prop)
    /\ Len(prop.callExprArgs) > 0
    /\ LastArg(prop).type = "ObjectExpression"

IsActionsBranch(prop) ==
    /\ ~prop.isClassDecorator
    /\ prop.type # "FunctionExpression"
    /\ ~prop.isCallExpression
    /\ prop.name = "actions"

\* a two-method expansion followed by a two-action expansion
C2_Witness ==
    /\ pc = "done"
    /\ run = 1
    /\ Len(orig) = 2
    /\ HasObjectArgument(orig[1])
    /\ IsActionsBranch(orig[2])
    /\ Len(classBody) = 4
    /\ classBody[2].kind = "set"
    /\ classBody[3].key.name = "save"

-----------------------------------------------------------------------------
(* Properties of the expanding handlers *)

Range(seq) == {seq[i] : i \in 1..Len(seq)}

\* C5: a call-expression property whose trailing argument is an object with
\* N entries gives exactly N methods in entry order, all with the outer key,
\* each of the kind its entry is named after and without its first
\* parameter; only the first carries the outer comments and decorators.
C5_ObjectArgumentExpands ==
    (run = 1 /\ Len(orig) = 1 /\ HasObjectArgument(orig[1])) =>
        LET prop == orig[1]
            entries == LastArg(prop).properties
        IN /\ pc # "error"
           /\ idx > 1 =>
                 /\ Len(classBody) = Len(entries)
                 /\ \A i \in 1..Len(entries) :
                       LET method == classBody[i] IN
                       /\ method.type = "MethodDefinition"
                       /\ method.key = prop.key
                       /\ method.kind = entries[i].key.name
                       /\ method.value.params =
                             Shifted(entries[i].value.params)
                       /\ i = 1 => /\ method.comments = prop.comments
                                   /\ method.decorators = prop.decorators
                       /\ i > 1 => /\ method.decorators = <<>>
                                   /\ Range(method.comments)
                                         \cap Range(prop.comments) = {}

\* C6: an actions property whose object has K entries gives exactly K
\* methods, one per entry in entry order, each with its entry's key and the
\* action decorator.
C6_ActionsExpand ==
    (Len(runStart) = 1 /\ IsActionsBranch(runStart[1])
        /\ runStart[1].value.type = "ObjectExpression") =>
        LET entries == runStart[1].value.properties IN
        /\ pc # "error"
        /\ idx > 1 =>
              /\ Len(classBody) = Len(entries)
              /\ \A i \in 1..Len(entries) :
                    /\ classBody[i].type = "MethodDefinition"
                    /\ classBody[i].key = entries[i].key
                    /\ classBody[i].decorators = <<Decorator("action")>>

C6_Witness ==
    /\ pc = "done"
    /\ run = 1
    /\ Len(orig) = 1
    /\ IsActionsBranch(orig[1])
    /\ Len(orig[1].value.properties) = 2
    /\ orig[1].value.properties[1].key # orig[1].value.properties[2].key
    /\ Len(classBody) = 2
    /\ classBody[1].key = orig[1].value.properties[1].key

\* C9: createClass leaves every input property, and every node reachable from
\* it, as it was, so a second call on the same list gives an equal class.
C9_InputUnchanged ==
    /\ pc \in {"loop", "done", "error"} => props = orig
    /\ run >= 2 => /\ pc # "error"
                   /\ pc = "done" => result = result1

\* C10: no error on empty or unrecognised shapes: a call with no arguments or
\* with a trailing argument that is neither function nor object gives one
\* field keeping the call as its value; an empty trailing object and an empty
\* actions object give no member; no mixins gives a bare superclass.
C10_DegradesWithoutError ==
    (run = 1 /\ Len(orig) = 1) =>
        LET prop == orig[1] IN
        /\ ( /\ IsCallBranch(prop)
             /\ \/ Len(prop.callExprArgs) = 0
                \/ LastArg(prop).type
                      \notin {"FunctionExpression", "ObjectExpression"} )
              => /\ pc # "error"
                 /\ idx > 1 =>
                       /\ Len(classBody) = 1
                       /\ classBody[1].type = "ClassProperty"
                       /\ classBody[1].key = prop.key
                       /\ classBody[1].value = prop.value
        /\ ( /\ HasObjectArgument(prop)
             /\ Len(LastArg(prop).properties) = 0 )
              => /\ pc # "error"
                 /\ idx > 1 => Len(classBody) = 0
        /\ ( /\ IsActionsBranch(prop)
             /\ prop.value.type = "ObjectExpression"
             /\ Len(prop.value.properties) = 0 )
              => /\ pc # "error"
                 /\ idx > 1 => Len(classBody) = 0
        /\ (pc = "done" /\ Len(mixins) = 0)
              => result.superClass = Identifier(superClassName)

====
